---- MODULE Spec2Model ----
(***************************************************************************)
(* State-machine model of the task manager of src/app.ts: the Task entity  *)
(* (constructor, update, toJSON, fromJSON), the TaskManager collection      *)
(* (add, update, remove, reorderTasks, view state, save, load, updateUI)    *)
(* and the page handlers that drive it.                                     *)
(*                                                                          *)
(* Strings are sequences of one-character strings, so that trim(),          *)
(* toLowerCase() and includes() are computed and not assumed.  A Date is    *)
(* [valid, ms]; its ISO-8601 text is [kind, sec, milli].  The value of the  *)
(* localStorage key 'tasks' is represented by its parse: [kind, items].     *)
(***************************************************************************)
EXTENDS Integers, Sequences, FiniteSets, TLC

VARIABLES
    tasks,          \* TaskManager.tasks
    currentFilter,  \* TaskManager.currentFilter
    currentSearch,  \* TaskManager.currentSearch
    currentSort,    \* TaskManager.currentSort
    storage,        \* localStorage item 'tasks'
    cards,          \* ids of the .task-card elements inside #tasks-list
    listShown,      \* #tasks-list is displayed (grid) and not hidden (none)
    stats,          \* the five counters written by updateStats
    pendingSetups,  \* setTimeout(() => this.setupDragAndDrop(), 10) not yet run
    dropListeners,  \* 'drop' listeners carried by each card of #tasks-list
    editingTaskId,  \* the page's editingTaskId; <<>> is null
    formLabels,     \* the form's title and submit button: "add" or "edit"
    deleteModal,    \* #delete-modal: displayed or not, and the id its
                    \* confirm button's onclick removes (<<>>: no onclick yet)
    now,            \* Date.now()
    issued,         \* ids returned by generateId so far
    last,           \* the last call: operation, arguments, outcome, effects
    before,         \* the manager and the page when the last call began
    steps           \* calls made so far

vars == <<tasks, currentFilter, currentSearch, currentSort, storage, cards,
          listShown, stats, pendingSetups, dropListeners, editingTaskId,
          formLabels, deleteModal, now, issued, last, before, steps>>

----------------------------------------------------------------------------
(* Bounds of the model *)

\* calls explored from the constructed manager
MaxSteps == 2
\* Date.now() advances over StartNow .. StartNow + MaxTicks
MaxTicks == 1
\* events and timer callbacks explored when the timers are followed one by one
MaxDndSteps == 4
\* events of the form and of the delete modal explored from the loaded page
MaxFormSteps == 4
\* Math.random() draws one of 1 .. MaxRnd
MaxRnd == 2

----------------------------------------------------------------------------
(* Strings *)

\* String.prototype.trim strips white space and line terminators
IsWhiteSpace(c) == c \in {" ", "\t", "\n"}

RECURSIVE trimStart(_)
trimStart(s) ==
    IF s = <<>> THEN <<>>
    ELSE IF IsWhiteSpace(Head(s)) THEN trimStart(Tail(s)) ELSE s

RECURSIVE trimEnd(_)
trimEnd(s) ==
    IF s = <<>> THEN <<>>
    ELSE IF IsWhiteSpace(s[Len(s)]) THEN trimEnd(SubSeq(s, 1, Len(s) - 1)) ELSE s

trim(s) == trimEnd(trimStart(s))

lowerLetters == <<"a", "b", "c", "d", "e", "f", "g", "h", "i", "j", "k", "l", "m",
                  "n", "o", "p", "q", "r", "s", "t", "u", "v", "w", "x", "y", "z">>

upperLetters == <<"A", "B", "C", "D", "E", "F", "G", "H", "I", "J", "K", "L", "M",
                  "N", "O", "P", "Q", "R", "S", "T", "U", "V", "W", "X", "Y", "Z">>

\* upper-case letter -> lower-case letter
lowerMap ==
    [c \in {upperLetters[i] : i \in DOMAIN upperLetters} \cup {"É"} |->
        IF c = "É" THEN "é"
        ELSE lowerLetters[CHOOSE i \in DOMAIN upperLetters : upperLetters[i] = c]]

lowerOf(c) == IF c \in DOMAIN lowerMap THEN lowerMap[c] ELSE c

toLowerCase(s) == [i \in DOMAIN s |-> lowerOf(s[i])]

\* String.prototype.includes: sub occurs in s as a contiguous run
includes(s, sub) ==
    \E i \in 0..(Len(s) - Len(sub)) : SubSeq(s, i + 1, i + Len(sub)) = sub

----------------------------------------------------------------------------
(* Task *)

\* type TaskStatus (line 1) and the validStatuses arrays
validStatuses == {"à faire", "en cours", "terminée", "bloquée"}

\* type TaskPriority (line 2); never checked at run time
TaskPriority == {"basse", "moyenne", "haute"}

getColorByStatus(status) ==
    CASE status = "à faire" -> "#3498db"
      [] status = "en cours" -> "#f39c12"
      [] status = "terminée" -> "#27ae60"
      [] status = "bloquée" -> "#e74c3c"
      [] OTHER -> "undefined"

\* mutant of validateInputs: the status is not tested
validateInputs_titleOnly(title, status) == trim(title) = <<>>

\* TRUE when validateInputs throws
validateInputs(title, status) ==
    \/ title = <<>>
    \/ Len(trim(title)) = 0
    \/ status \notin validStatuses

\* `task_${Date.now()}_${Math.random()...}`: the two parts that vary
generateId(t, r) == <<t, r>>

\* Date and its ISO-8601 text, millisecond precision
\* mutant of toISOString: the text has no milliseconds
toISOString_seconds(d) == [kind |-> "iso", sec |-> d.ms \div 1000, milli |-> 0]

toISOString(d) == [kind |-> "iso", sec |-> d.ms \div 1000, milli |-> d.ms % 1000]

newDate(text) ==
    IF text.kind = "iso"
    THEN [valid |-> TRUE, ms |-> text.sec * 1000 + text.milli]
    ELSE [valid |-> FALSE, ms |-> 0]

\* new Task(title, description, status, priority) at time t with random draw r;
\* threw = TRUE stands for the Error thrown by validateInputs
Task_new(title, description, status, priority, t, r) ==
    IF validateInputs(title, status)
    THEN [threw |-> TRUE, task |-> <<>>]
    ELSE [threw |-> FALSE,
          task |-> << [id |-> generateId(t, r),
                       title |-> trim(title),
                       description |-> trim(description),
                       status |-> status,
                       priority |-> priority,
                       createdAt |-> [valid |-> TRUE, ms |-> t],
                       color |-> getColorByStatus(status)] >>]

\* Task.update(partialData): partialData is [has, title, description, status,
\* priority], where "title" \in has stands for partialData.title !== undefined.
\* The four blocks run in the order of the code; a throw keeps what ran before it.
updateTitle(t, p) ==
    IF "title" \notin p.has THEN [task |-> t, threw |-> FALSE]
    ELSE IF p.title = <<>> \/ Len(trim(p.title)) = 0
         THEN [task |-> t, threw |-> TRUE]
         ELSE [task |-> [t EXCEPT !.title = trim(p.title)], threw |-> FALSE]

updateDescription(t, p) ==
    IF "description" \notin p.has THEN t
    ELSE [t EXCEPT !.description = trim(p.description)]

\* mutant of updateStatus: the status and color are assigned before the check
updateStatus_assignsFirst(t, p) ==
    IF "status" \notin p.has THEN [task |-> t, threw |-> FALSE]
    ELSE [task |-> [t EXCEPT !.status = p.status,
                             !.color = getColorByStatus(p.status)],
          threw |-> p.status \notin validStatuses]

updateStatus(t, p) ==
    IF "status" \notin p.has THEN [task |-> t, threw |-> FALSE]
    ELSE IF p.status \notin validStatuses
         THEN [task |-> t, threw |-> TRUE]
         ELSE [task |-> [t EXCEPT !.status = p.status,
                                  !.color = getColorByStatus(p.status)],
               threw |-> FALSE]

updatePriority(t, p) ==
    IF "priority" \notin p.has THEN t
    ELSE [t EXCEPT !.priority = p.priority]

\* mutant of Task.update: the title block runs after the other three
Task_update_titleLast(t, p) ==
    LET b == updateStatus(updateDescription(t, p), p) IN
    IF b.threw THEN b
    ELSE updateTitle(updatePriority(b.task, p), p)

Task_update(t, p) ==
    LET a == updateTitle(t, p) IN
    IF a.threw THEN a
    ELSE LET b == updateStatus(updateDescription(a.task, p), p) IN
         IF b.threw THEN b
         ELSE [task |-> updatePriority(b.task, p), threw |-> FALSE]

\* Task.toJSON: threw stands for the RangeError of toISOString on an invalid Date
toJSON(t) ==
    IF ~t.createdAt.valid
    THEN [threw |-> TRUE, data |-> <<>>]
    ELSE [threw |-> FALSE,
          data |-> << [id |-> t.id,
                       title |-> t.title,
                       description |-> t.description,
                       status |-> t.status,
                       priority |-> t.priority,
                       createdAt |-> toISOString(t.createdAt),
                       color |-> t.color] >>]

\* Task.fromJSON(data): the constructor validates and trims, then id, createdAt
\* and color are overwritten with the stored values
fromJSON(data) ==
    LET c == Task_new(data.title, data.description, data.status, data.priority, 0, 0) IN
    IF c.threw THEN c
    ELSE [threw |-> FALSE,
          task |-> << [c.task[1] EXCEPT !.id = data.id,
                                        !.createdAt = newDate(data.createdAt),
                                        !.color = data.color] >>]

----------------------------------------------------------------------------
(* TaskManager.  The operators below take and return a record w of the       *)
(* manager's fields and of what it touches outside itself:                   *)
(*   tasks, currentFilter, currentSearch, currentSort, storage, cards,       *)
(*   listShown, stats, pendingSetups, dropListeners, editingTaskId,          *)
(*   formLabels, deleteModal, trace                                          *)
(* trace lists, in order, the save() and updateUI() calls of the running     *)
(* handler: [ev, ok, synced], ok = the write to localStorage happened,       *)
(* synced = localStorage holds the serialization of tasks at that moment.    *)

\* Array.prototype.findIndex on task.id === id: the first index, 0 for -1
RECURSIVE findIndexFrom(_, _, _)
findIndexFrom(ts, id, i) ==
    IF i > Len(ts) THEN 0
    ELSE IF ts[i].id = id THEN i ELSE findIndexFrom(ts, id, i + 1)

findIndex(ts, id) == findIndexFrom(ts, id, 1)

\* findById: the first task with that id, as a sequence of at most one task
findById(ts, id) ==
    IF findIndex(ts, id) = 0 THEN <<>> ELSE << ts[findIndex(ts, id)] >>

\* this.tasks.map(task => task.toJSON()) followed by JSON.stringify
serialize(ts) ==
    IF \E i \in DOMAIN ts : toJSON(ts[i]).threw
    THEN [threw |-> TRUE, blob |-> [kind |-> "array", items |-> <<>>]]
    ELSE [threw |-> FALSE,
          blob |-> [kind |-> "array",
                    items |-> [i \in DOMAIN ts |-> toJSON(ts[i]).data[1]]]]

synced(w) ==
    LET s == serialize(w.tasks) IN ~s.threw /\ w.storage = s.blob

\* save(): an exception of toJSON is swallowed and nothing is written
save(w) ==
    LET s == serialize(w.tasks)
        st == IF s.threw THEN w.storage ELSE s.blob
    IN  [w EXCEPT !.storage = st,
                  !.trace = Append(@, [ev |-> "save", ok |-> ~s.threw,
                                       synced |-> ~s.threw])]

\* mutant of load: the catch block does not reset tasks
load_noReset(w) ==
    CASE w.storage.kind \in {"absent", "empty"} -> w
      [] w.storage.kind = "array" ->
            LET items == w.storage.items IN
            IF \E i \in DOMAIN items : fromJSON(items[i]).threw
            THEN w
            ELSE [w EXCEPT !.tasks = [i \in DOMAIN items |-> fromJSON(items[i]).task[1]]]
      [] OTHER -> w

\* load(): a missing or empty item leaves tasks alone; a parse error, a value
\* that is no array or a record the constructor rejects empties tasks
load(w) ==
    CASE w.storage.kind \in {"absent", "empty"} -> w
      [] w.storage.kind = "array" ->
            LET items == w.storage.items IN
            IF \E i \in DOMAIN items : fromJSON(items[i]).threw
            THEN [w EXCEPT !.tasks = <<>>]
            ELSE [w EXCEPT !.tasks = [i \in DOMAIN items |-> fromJSON(items[i]).task[1]]]
      [] OTHER -> [w EXCEPT !.tasks = <<>>]

\* getStats(): all is tasks.length; the forEach adds one to the counter of a
\* task's status when the stats object has that key
RECURSIVE countStatuses(_, _)
countStatuses(st, ts) ==
    IF ts = <<>> THEN st
    ELSE countStatuses(IF Head(ts).status \in DOMAIN st
                       THEN [st EXCEPT ![Head(ts).status] = @ + 1] ELSE st,
                       Tail(ts))

\* mutant of getStats: the stats object has no counter for bloquée
getStats_noBlocked(ts) ==
    [countStatuses([k \in (validStatuses \ {"bloquée"}) \cup {"all"} |->
                       IF k = "all" THEN Len(ts) ELSE 0], ts)
        @@ [k \in {"bloquée"} |-> 0] EXCEPT !["all"] = Len(ts)]

getStats(ts) ==
    countStatuses([k \in validStatuses \cup {"all"} |->
                      IF k = "all" THEN Len(ts) ELSE 0], ts)

\* the comparators of getFilteredTasks return a number; only its sign matters
\* to Array.prototype.sort, and NaN counts as 0
sign(n) == IF n < 0 THEN 0 - 1 ELSE IF n > 0 THEN 1 ELSE 0

\* String.prototype.localeCompare: letters first (case and accents ignored),
\* then accents, then case (lower before upper); white space and punctuation
\* sort before the letters
baseOf(c) ==
    CASE lowerOf(c) = "é" -> "e"
      [] lowerOf(c) = "à" -> "a"
      [] OTHER -> lowerOf(c)

\* letter -> its place in the alphabet
letterIndex ==
    [c \in {lowerLetters[i] : i \in DOMAIN lowerLetters} |->
        CHOOSE i \in DOMAIN lowerLetters : lowerLetters[i] = c]

primaryWeight(c) ==
    IF baseOf(c) \in DOMAIN letterIndex THEN 2 + letterIndex[baseOf(c)]
    ELSE IF IsWhiteSpace(c) THEN 1 ELSE 2

secondaryWeight(c) == IF c \in {"é", "É", "à"} THEN 1 ELSE 0

tertiaryWeight(c) == IF lowerOf(c) # c THEN 1 ELSE 0

RECURSIVE lexCompare(_, _)
lexCompare(x, y) ==
    IF x = <<>> /\ y = <<>> THEN 0
    ELSE IF x = <<>> THEN 0 - 1
    ELSE IF y = <<>> THEN 1
    ELSE IF Head(x) # Head(y) THEN sign(Head(x) - Head(y))
    ELSE lexCompare(Tail(x), Tail(y))

localeCompare(a, b) ==
    LET p == lexCompare([i \in DOMAIN a |-> primaryWeight(a[i])],
                        [i \in DOMAIN b |-> primaryWeight(b[i])])
        q == lexCompare([i \in DOMAIN a |-> secondaryWeight(a[i])],
                        [i \in DOMAIN b |-> secondaryWeight(b[i])])
        r == lexCompare([i \in DOMAIN a |-> tertiaryWeight(a[i])],
                        [i \in DOMAIN b |-> tertiaryWeight(b[i])])
    IN  IF p # 0 THEN p ELSE IF q # 0 THEN q ELSE r

\* priorityOrder / priorityOrderAsc: 0 stands for undefined
priorityOrder(p) ==
    CASE p = "haute" -> 3
      [] p = "moyenne" -> 2
      [] p = "basse" -> 1
      [] OTHER -> 0

\* the sort callback of getFilteredTasks
compare(sortKey, a, b) ==
    CASE sortKey = "date-asc" ->
            IF a.createdAt.valid /\ b.createdAt.valid
            THEN sign(a.createdAt.ms - b.createdAt.ms) ELSE 0
      [] sortKey = "date-desc" ->
            IF a.createdAt.valid /\ b.createdAt.valid
            THEN sign(b.createdAt.ms - a.createdAt.ms) ELSE 0
      [] sortKey = "title-asc" -> localeCompare(a.title, b.title)
      [] sortKey = "title-desc" -> localeCompare(b.title, a.title)
      [] sortKey = "priority-desc" ->
            IF priorityOrder(a.priority) = 0 \/ priorityOrder(b.priority) = 0
            THEN 0 ELSE sign(priorityOrder(b.priority) - priorityOrder(a.priority))
      [] sortKey = "priority-asc" ->
            IF priorityOrder(a.priority) = 0 \/ priorityOrder(b.priority) = 0
            THEN 0 ELSE sign(priorityOrder(a.priority) - priorityOrder(b.priority))
      [] OTHER -> 0

\* Array.prototype.sort is stable: x goes after every element not greater than it
RECURSIVE insertSorted(_, _, _)
insertSorted(sorted, x, sortKey) ==
    IF sorted = <<>> THEN <<x>>
    ELSE IF compare(sortKey, sorted[Len(sorted)], x) > 0
         THEN Append(insertSorted(SubSeq(sorted, 1, Len(sorted) - 1), x, sortKey),
                     sorted[Len(sorted)])
         ELSE Append(sorted, x)

RECURSIVE sortTasks(_, _)
sortTasks(ts, sortKey) ==
    IF ts = <<>> THEN <<>>
    ELSE insertSorted(sortTasks(SubSeq(ts, 1, Len(ts) - 1), sortKey),
                      ts[Len(ts)], sortKey)

\* getFilteredTasks(): status filter, then search, then sort, on a copy
getFilteredTasks(w) ==
    LET byStatus == IF w.currentFilter # "all"
                    THEN SelectSeq(w.tasks, LAMBDA t : t.status = w.currentFilter)
                    ELSE w.tasks
        bySearch == IF w.currentSearch # <<>>
                    THEN SelectSeq(byStatus,
                            LAMBDA t : \/ includes(toLowerCase(t.title), w.currentSearch)
                                       \/ includes(toLowerCase(t.description), w.currentSearch))
                    ELSE byStatus
    IN  IF w.currentSort # "manual" THEN sortTasks(bySearch, w.currentSort) ELSE bySearch

\* setupDragAndDrop(): every .task-card of the document gets one more
\* listener of each kind
setupDragAndDrop(w) ==
    IF w.cards = <<>> THEN w ELSE [w EXCEPT !.dropListeners = @ + 1]

\* renderTasks(): with nothing to show the list is hidden and its cards stay;
\* otherwise innerHTML is rebuilt, one new card per filtered task, and
\* setupDragAndDrop is deferred by a timer
renderTasks(w) ==
    LET filteredTasks == getFilteredTasks(w) IN
    IF Len(filteredTasks) = 0
    THEN [w EXCEPT !.listShown = FALSE]
    ELSE [w EXCEPT !.listShown = TRUE,
                   !.cards = [i \in DOMAIN filteredTasks |-> filteredTasks[i].id],
                   !.dropListeners = 0,
                   !.pendingSetups = @ + 1]

\* updateStats() writes the counters of getStats() into the page
updateStats(w) == [w EXCEPT !.stats = getStats(w.tasks)]

\* updateUI(): updateStats then renderTasks
updateUI(w) ==
    LET u == renderTasks(updateStats(w)) IN
    [u EXCEPT !.trace = Append(@, [ev |-> "updateUI", ok |-> TRUE, synced |-> synced(w)])]

\* add(task): push, save, updateUI
add(w, task) ==
    [w |-> updateUI(save([w EXCEPT !.tasks = Append(@, task)])), ret |-> "task",
     threw |-> FALSE]

\* mutant of TaskManager.update: no try/catch around task.update
update_noCatch(w, id, p) ==
    LET i == findIndex(w.tasks, id) IN
    IF i = 0 THEN [w |-> w, ret |-> "false", threw |-> FALSE]
    ELSE LET r == Task_update(w.tasks[i], p)
             w1 == [w EXCEPT !.tasks[i] = r.task]
         IN  IF r.threw THEN [w |-> w1, ret |-> "threw", threw |-> TRUE]
             ELSE [w |-> updateUI(save(w1)), ret |-> "true", threw |-> FALSE]

\* update(id, partialData): threw records the exception of Task.update, which
\* the catch turns into false; the task object keeps what update assigned
\* before it threw
update(w, id, p) ==
    LET i == findIndex(w.tasks, id) IN
    IF i = 0 THEN [w |-> w, ret |-> "false", threw |-> FALSE]
    ELSE LET r == Task_update(w.tasks[i], p)
             w1 == [w EXCEPT !.tasks[i] = r.task]
         IN  IF r.threw THEN [w |-> w1, ret |-> "false", threw |-> TRUE]
             ELSE [w |-> updateUI(save(w1)), ret |-> "true", threw |-> FALSE]

\* splice(index, 1)
splice(ts, i) == SubSeq(ts, 1, i - 1) \o SubSeq(ts, i + 1, Len(ts))

\* remove(id)
remove(w, id) ==
    LET index == findIndex(w.tasks, id) IN
    IF index = 0 THEN [w |-> w, ret |-> "false", threw |-> FALSE]
    ELSE [w |-> updateUI(save([w EXCEPT !.tasks = splice(@, index)])),
          ret |-> "true", threw |-> FALSE]

\* mutant of filterByStatus: the sort key goes back to its default
filterByStatus_resetsSort(w, status) ==
    [w |-> updateUI([w EXCEPT !.currentFilter = status, !.currentSort = "date-desc"]),
     ret |-> "list", threw |-> FALSE]

\* filterByStatus(status)
filterByStatus(w, status) ==
    [w |-> updateUI([w EXCEPT !.currentFilter = status]), ret |-> "list",
     threw |-> FALSE]

\* search(text)
search(w, text) ==
    [w |-> updateUI([w EXCEPT !.currentSearch = toLowerCase(text)]), ret |-> "list",
     threw |-> FALSE]

\* mutant of sortBy*: the array of the manager is sorted, not a copy
sortBy_inPlace(w, field, order) ==
    [w |-> updateUI([w EXCEPT !.currentSort = field \o "-" \o order,
                              !.tasks = sortTasks(@, field \o "-" \o order)]),
     ret |-> "list", threw |-> FALSE]

\* sortByDate / sortByTitle / sortByPriority(order): `${field}-${order}`
sortBy(w, field, order) ==
    [w |-> updateUI([w EXCEPT !.currentSort = field \o "-" \o order]), ret |-> "list",
     threw |-> FALSE]

\* clearAll()
clearAll(w) ==
    [w |-> updateUI(save([w EXCEPT !.tasks = <<>>])), ret |-> "void", threw |-> FALSE]

\* reorderTasks(draggedId, targetId): the two array slots are exchanged
reorderTasks(w, draggedId, targetId) ==
    LET draggedIndex == findIndex(w.tasks, draggedId)
        targetIndex == findIndex(w.tasks, targetId)
    IN  IF draggedIndex = 0 \/ targetIndex = 0 THEN w
        ELSE LET swapped == [w.tasks EXCEPT ![draggedIndex] = w.tasks[targetIndex],
                                            ![targetIndex] = w.tasks[draggedIndex]]
             IN  updateUI(save([w EXCEPT !.tasks = swapped, !.currentSort = "manual"]))

\* mutant of the drop listener: draggedId !== targetId is not tested
dropListener_noSelfTest(w, draggedId, targetId) ==
    IF draggedId # <<>> /\ targetId # <<>>
    THEN [w |-> reorderTasks(w, draggedId, targetId), ret |-> "void", threw |-> FALSE]
    ELSE [w |-> w, ret |-> "void", threw |-> FALSE]

\* the 'drop' listener of a card: draggedId is the text of the drag's
\* dataTransfer, targetId the card's data-id; empty strings are falsy
dropListener(w, draggedId, targetId) ==
    IF draggedId # <<>> /\ targetId # <<>> /\ draggedId # targetId
    THEN [w |-> reorderTasks(w, draggedId, targetId), ret |-> "void", threw |-> FALSE]
    ELSE [w |-> w, ret |-> "void", threw |-> FALSE]

\* a drop event on a card: each of the n 'drop' listeners the card carries runs,
\* in the order they were added
RECURSIVE dispatchDrop(_, _, _, _)
dispatchDrop(w, draggedId, targetId, n) ==
    IF n = 0 THEN [w |-> w, ret |-> "void", threw |-> FALSE]
    ELSE dispatchDrop(dropListener(w, draggedId, targetId).w, draggedId, targetId,
                      n - 1)

\* the six tasks of addSampleData
sampleTasks ==
    <<
       [title |-> <<"C", "r", "é", "e", "r", " ", "u", "n", "e", " ", "A", "P", "I", " ",
                 "R", "E", "S", "T">>,
        description |-> <<"D", "é", "v", "e", "l", "o", "p", "p", "e", "r", " ", "u", "n", "e",
                       " ", "A", "P", "I", " ", "a", "v", "e", "c", " ", "N", "o", "d", "e",
                       ".", "j", "s", " ", "e", "t", " ", "E", "x", "p", "r", "e", "s", "s",
                       " ", "p", "o", "u", "r", " ", "l", "e", " ", "p", "r", "o", "j", "e",
                       "t">>,
        status |-> "à faire", priority |-> "haute"],
       [title |-> <<"D", "e", "s", "i", "g", "n", " ", "d", "e", " ", "l", "'", "i", "n",
                 "t", "e", "r", "f", "a", "c", "e">>,
        description |-> <<"C", "r", "é", "e", "r", " ", "l", "e", "s", " ", "m", "a", "q", "u",
                       "e", "t", "t", "e", "s", " ", "e", "t", " ", "p", "r", "o", "t", "o",
                       "t", "y", "p", "e", "s", " ", "d", "e", " ", "l", "'", "a", "p", "p",
                       "l", "i", "c", "a", "t", "i", "o", "n">>,
        status |-> "en cours", priority |-> "moyenne"],
       [title |-> <<"T", "e", "s", "t", "s", " ", "u", "n", "i", "t", "a", "i", "r", "e",
                 "s">>,
        description |-> <<"É", "c", "r", "i", "r", "e", " ", "l", "e", "s", " ", "t", "e", "s",
                       "t", "s", " ", "p", "o", "u", "r", " ", "t", "o", "u", "t", "e", "s",
                       " ", "l", "e", "s", " ", "f", "o", "n", "c", "t", "i", "o", "n", "n",
                       "a", "l", "i", "t", "é", "s">>,
        status |-> "à faire", priority |-> "haute"],
       [title |-> <<"D", "o", "c", "u", "m", "e", "n", "t", "a", "t", "i", "o", "n">>,
        description |-> <<"R", "é", "d", "i", "g", "e", "r", " ", "l", "a", " ", "d", "o", "c",
                       "u", "m", "e", "n", "t", "a", "t", "i", "o", "n", " ", "t", "e", "c",
                       "h", "n", "i", "q", "u", "e", " ", "d", "u", " ", "p", "r", "o", "j",
                       "e", "t">>,
        status |-> "bloquée", priority |-> "basse"],
       [title |-> <<"D", "é", "p", "l", "o", "i", "e", "m", "e", "n", "t">>,
        description |-> <<"M", "e", "t", "t", "r", "e", " ", "e", "n", " ", "p", "r", "o", "d",
                       "u", "c", "t", "i", "o", "n", " ", "s", "u", "r", " ", "l", "e", " ",
                       "s", "e", "r", "v", "e", "u", "r">>,
        status |-> "terminée", priority |-> "moyenne"],
       [title |-> <<"R", "é", "u", "n", "i", "o", "n", " ", "é", "q", "u", "i", "p", "e">>,
        description |-> <<"P", "r", "é", "p", "a", "r", "e", "r", " ", "l", "a", " ", "r", "é",
                       "u", "n", "i", "o", "n", " ", "h", "e", "b", "d", "o", "m", "a", "d",
                       "a", "i", "r", "e", " ", "a", "v", "e", "c", " ", "l", "'", "é", "q",
                       "u", "i", "p", "e">>,
        status |-> "à faire", priority |-> "basse"]
    >>

\* mutant of addSampleData: the sample tasks are not saved
addSampleData_noSave(w, seeds) ==
    IF Len(w.tasks) = 0
    THEN [w EXCEPT !.tasks =
                [i \in DOMAIN sampleTasks |->
                    Task_new(sampleTasks[i].title, sampleTasks[i].description,
                             sampleTasks[i].status, sampleTasks[i].priority,
                             seeds[i][1], seeds[i][2]).task[1]]]
    ELSE w

\* addSampleData(): seeds[i] = <<Date.now(), Math.random()>> of the i-th new Task
addSampleData(w, seeds) ==
    IF Len(w.tasks) = 0
    THEN save([w EXCEPT !.tasks =
                [i \in DOMAIN sampleTasks |->
                    Task_new(sampleTasks[i].title, sampleTasks[i].description,
                             sampleTasks[i].status, sampleTasks[i].priority,
                             seeds[i][1], seeds[i][2]).task[1]]])
    ELSE w

\* new TaskManager(): the field initialisers, load(), addSampleData()
TaskManager_new(blob, page, seeds) ==
    addSampleData(load([tasks |-> <<>>,
                        currentFilter |-> "all",
                        currentSearch |-> <<>>,
                        currentSort |-> "date-desc",
                        storage |-> blob,
                        cards |-> page.cards,
                        listShown |-> page.listShown,
                        stats |-> page.stats,
                        pendingSetups |-> page.pendingSetups,
                        dropListeners |-> page.dropListeners,
                        editingTaskId |-> page.editingTaskId,
                        formLabels |-> page.formLabels,
                        deleteModal |-> page.deleteModal,
                        trace |-> <<>>]), seeds)

----------------------------------------------------------------------------
(* Page functions *)

\* 'change' listener of #sort-select: the field is assigned, then updateUI
sortSelectChange(w, value) ==
    [w |-> updateUI([w EXCEPT !.currentSort = value]), ret |-> "void",
     threw |-> FALSE]

\* the statuses / priorities arrays of quickEditStatus and quickEditPriority
statuses == <<"à faire", "en cours", "terminée", "bloquée">>

priorities == <<"basse", "moyenne", "haute">>

\* Array.prototype.indexOf, zero-based, -1 when absent
indexOf(arr, x) ==
    IF \E i \in DOMAIN arr : arr[i] = x
    THEN (CHOOSE i \in DOMAIN arr : arr[i] = x) - 1
    ELSE 0 - 1

\* partialData with no key set
noData == [has |-> {}, title |-> <<>>, description |-> <<>>, status |-> "",
           priority |-> ""]

\* quickEditStatus(id): the next status of the cycle
quickEditStatus(w, id) ==
    IF findById(w.tasks, id) = <<>> THEN [w |-> w, ret |-> "void", threw |-> FALSE]
    ELSE LET currentIndex == indexOf(statuses, findById(w.tasks, id)[1].status)
             nextIndex == (currentIndex + 1) % Len(statuses)
             r == update(w, id, [noData EXCEPT !.has = {"status"},
                                              !.status = statuses[nextIndex + 1]])
         IN  [r EXCEPT !.ret = "void"]

\* quickEditPriority(id): the next priority of the cycle
quickEditPriority(w, id) ==
    IF findById(w.tasks, id) = <<>> THEN [w |-> w, ret |-> "void", threw |-> FALSE]
    ELSE LET currentIndex == indexOf(priorities, findById(w.tasks, id)[1].priority)
             nextIndex == (currentIndex + 1) % Len(priorities)
             r == update(w, id, [noData EXCEPT !.has = {"priority"},
                                              !.priority = priorities[nextIndex + 1]])
         IN  [r EXCEPT !.ret = "void"]

\* editTask(id): an unknown id changes nothing; else editingTaskId is set and
\* the form shows its edit labels
editTask(w, id) ==
    IF findById(w.tasks, id) = <<>> THEN [w |-> w, ret |-> "void", threw |-> FALSE]
    ELSE [w |-> [w EXCEPT !.editingTaskId = id, !.formLabels = "edit"],
          ret |-> "void", threw |-> FALSE]

\* resetForm(): the form is cleared and shows its add labels
resetForm(w) == [w EXCEPT !.formLabels = "add"]

\* cancelEdit(): editingTaskId = null, then resetForm()
cancelEdit(w) ==
    [w |-> resetForm([w EXCEPT !.editingTaskId = <<>>]), ret |-> "void",
     threw |-> FALSE]

\* deleteTask(id): the modal is displayed and the onclick of its confirm button
\* is replaced by one that removes id
deleteTask(w, id) ==
    [w |-> [w EXCEPT !.deleteModal = [shown |-> TRUE, id |-> id]], ret |-> "void",
     threw |-> FALSE]

\* the onclick set by deleteTask: remove(id), then the modal is hidden
confirmDelete(w) ==
    [w |-> [remove(w, w.deleteModal.id).w EXCEPT !.deleteModal.shown = FALSE],
     ret |-> "void", threw |-> FALSE]

\* 'click' listener of #cancel-delete: the modal is hidden
cancelDelete(w) ==
    [w |-> [w EXCEPT !.deleteModal.shown = FALSE], ret |-> "void", threw |-> FALSE]

\* 'submit' listener of #task-form with the form's values a, at time t with
\* random draw r: update of the edited task when editingTaskId is set, and
\* resetForm() on success; else new Task, add, resetForm(); an Error of the
\* constructor is caught and shown
submitForm(w, a, t, r) ==
    IF w.editingTaskId # <<>>
    THEN LET u == update(w, w.editingTaskId, a) IN
         [w |-> IF u.ret = "true" THEN resetForm(u.w) ELSE u.w,
          ret |-> u.ret, threw |-> FALSE]
    ELSE LET c == Task_new(a.title, a.description, a.status, a.priority, t, r) IN
         IF c.threw THEN [w |-> w, ret |-> "error", threw |-> FALSE]
         ELSE [w |-> resetForm(add(w, c.task[1]).w), ret |-> "added", threw |-> FALSE]

----------------------------------------------------------------------------
(* Inputs *)

\* Date.now() when the page is opened
StartNow == 1000

\* an id no generateId call returns (Math.random draws start at 1)
ghostId == <<0, 0>>

\* records written by save() in an earlier visit of the page
savedItems ==
    << [id |-> <<998, 1>>, title |-> <<"a">>, description |-> <<>>,
        status |-> "à faire", priority |-> "haute",
        createdAt |-> [kind |-> "iso", sec |-> 0, milli |-> 998],
        color |-> "#3498db"],
       [id |-> <<998, 2>>, title |-> <<"B", " ", "c">>, description |-> <<"d">>,
        status |-> "terminée", priority |-> "basse",
        createdAt |-> [kind |-> "iso", sec |-> 0, milli |-> 998],
        color |-> "#27ae60"],
       [id |-> <<999, 1>>, title |-> <<"c">>, description |-> <<>>,
        status |-> "en cours", priority |-> "moyenne",
        createdAt |-> [kind |-> "iso", sec |-> 0, milli |-> 999],
        color |-> "#f39c12"] >>

\* the same visit, had generateId returned <<998, 1>> for the second task too
collidedItems == [savedItems EXCEPT ![2].id = <<998, 1>>]

\* an item 'tasks' written by other code of the same origin: the second
\* record's color is not the one of its status
foreignItems == [savedItems EXCEPT ![2].color = "#3498db"]

storedBlobs ==
    { [kind |-> "array", items |-> savedItems],
      [kind |-> "array", items |-> collidedItems],
      [kind |-> "array", items |-> foreignItems] }

\* arguments of new Task(...)
newTaskInputs ==
    { [has |-> {"title", "description", "status", "priority"},
       title |-> <<" ", "A", "b", " ">>, description |-> <<" ", "d">>,
       status |-> "en cours", priority |-> "haute"],
      [has |-> {"title", "description", "status", "priority"},
       title |-> <<"B">>, description |-> <<>>,
       status |-> "bloquée", priority |-> "basse"],
      [has |-> {"title", "description", "status", "priority"},
       title |-> <<" ", "\t">>, description |-> <<"d">>,
       status |-> "à faire", priority |-> "moyenne"],
      [has |-> {"title", "description", "status", "priority"},
       title |-> <<>>, description |-> <<>>,
       status |-> "à faire", priority |-> "moyenne"],
      [has |-> {"title", "description", "status", "priority"},
       title |-> <<"c">>, description |-> <<>>,
       status |-> "archivée", priority |-> "moyenne"] }

\* arguments of update(id, partialData)
partialInputs ==
    { noData,
      [noData EXCEPT !.has = {"title"}, !.title = <<" ", "d", " ">>],
      [noData EXCEPT !.has = {"title", "description", "status", "priority"},
                     !.title = <<" ", " ">>, !.description = <<"e">>,
                     !.status = "terminée", !.priority = "haute"],
      [noData EXCEPT !.has = {"title", "description", "status"},
                     !.title = <<"d">>, !.description = <<" ", "e">>,
                     !.status = "archivée"],
      [noData EXCEPT !.has = {"status", "priority"},
                     !.status = "archivée", !.priority = "haute"],
      [noData EXCEPT !.has = {"status"}, !.status = "bloquée"],
      [noData EXCEPT !.has = {"priority"}, !.priority = "basse"],
      [noData EXCEPT !.has = {"title", "description", "status", "priority"},
                     !.title = <<"D", "a">>, !.description = <<>>,
                     !.status = "à faire", !.priority = "moyenne"] }

filterInputs == {"all", "terminée", "bloquée"}

\* values of the #sort-select options
sortSelectInputs == {"title-asc", "priority-desc"}

searchInputs == { <<>>, <<"A">> }

\* ids a caller can name: those of the tasks, those of the cards, and a stranger
RECURSIVE idsOf(_)
idsOf(ts) == IF ts = <<>> THEN {} ELSE {Head(ts).id} \cup idsOf(Tail(ts))

idInputs == idsOf(tasks) \cup {cards[i] : i \in DOMAIN cards} \cup {ghostId}

----------------------------------------------------------------------------
(* The state machine *)

\* the running manager and what it touches, as the operators take it
W == [tasks |-> tasks, currentFilter |-> currentFilter,
      currentSearch |-> currentSearch, currentSort |-> currentSort,
      storage |-> storage, cards |-> cards, listShown |-> listShown,
      stats |-> stats, pendingSetups |-> pendingSetups,
      dropListeners |-> dropListeners, editingTaskId |-> editingTaskId,
      formLabels |-> formLabels, deleteModal |-> deleteModal, trace |-> <<>>]

\* the page before the script runs: no card, counters at 0, the form in add
\* mode, editingTaskId null, the delete modal hidden
emptyPage == [cards |-> <<>>, listShown |-> TRUE, stats |-> getStats(<<>>),
              pendingSetups |-> 0, dropListeners |-> 0, editingTaskId |-> <<>>,
              formLabels |-> "add",
              deleteModal |-> [shown |-> FALSE, id |-> <<>>]]

\* Math.random() of the six sample tasks: all different, or the first two equal
sampleDraws == { [i \in DOMAIN sampleTasks |-> i],
                 [i \in DOMAIN sampleTasks |-> IF i = 1 THEN 2 ELSE i] }

\* <<Date.now(), Math.random()>> of the six sample tasks built at time t0: the
\* clock ticks after the third task or not at all while addSampleData runs
sampleSeeds(t0) ==
    { [i \in DOMAIN sampleTasks |->
          <<IF i <= k \/ t0 = StartNow + MaxTicks THEN t0 ELSE t0 + 1, d[i]>>] :
        k \in {3, Len(sampleTasks)}, d \in sampleDraws }

\* addSampleData() finds the collection empty after load() of this item
seedsNeeded(blob) ==
    ~(blob.kind = "array" /\ blob.items # <<>>
        /\ \A i \in DOMAIN blob.items : ~fromJSON(blob.items[i]).threw)

\* the pending timers run: setupDragAndDrop once for each
RECURSIVE runTimers(_)
runTimers(w) ==
    IF w.pendingSetups = 0 THEN w
    ELSE runTimers(setupDragAndDrop([w EXCEPT !.pendingSetups = @ - 1]))

\* the timers set by a handler: left pending, or run before the next event
settle(w, deferred) == IF deferred THEN w ELSE runTimers(w)

\* script start (new TaskManager()) and DOMContentLoaded (updateUI) over a
\* stored item
Boot(blob, seeds, deferred) ==
    LET w0 == TaskManager_new(blob, emptyPage, seeds)
        w == settle(updateUI(w0), deferred)
    IN  /\ tasks = w.tasks
        /\ currentFilter = w.currentFilter
        /\ currentSearch = w.currentSearch
        /\ currentSort = w.currentSort
        /\ storage = w.storage
        /\ cards = w.cards
        /\ listShown = w.listShown
        /\ stats = w.stats
        /\ pendingSetups = w.pendingSetups
        /\ dropListeners = w.dropListeners
        /\ editingTaskId = w.editingTaskId
        /\ formLabels = w.formLabels
        /\ deleteModal = w.deleteModal
        /\ now = IF seeds = <<>> THEN StartNow ELSE seeds[Len(seeds)][1]
        /\ issued = {generateId(seeds[i][1], seeds[i][2]) : i \in DOMAIN seeds}
        /\ last = [op |-> "init", id |-> <<>>, id2 |-> <<>>, arg |-> noData,
                   text |-> <<>>, ret |-> "void", threw |-> FALSE, fresh |-> TRUE,
                   trace |-> w.trace]
        /\ before = [w0 EXCEPT !.tasks = <<>>, !.storage = blob, !.trace = <<>>]
        /\ steps = 0

InitOver(blobs) ==
    \E blob \in blobs :
    \E seeds \in (IF seedsNeeded(blob) THEN sampleSeeds(StartNow) ELSE {<<>>}) :
        Boot(blob, seeds, FALSE)

Init == InitOver(storedBlobs)

\* one call: the manager's fields and the page become those of r.w, settled
ApplyWithin(bound, deferred, res, op, id, id2, arg, text, fresh) ==
    /\ steps < bound
    /\ \E r \in {res} : \E w \in {settle(r.w, deferred)} :
        /\ tasks' = w.tasks
        /\ currentFilter' = w.currentFilter
        /\ currentSearch' = w.currentSearch
        /\ currentSort' = w.currentSort
        /\ storage' = w.storage
        /\ cards' = w.cards
        /\ listShown' = w.listShown
        /\ stats' = w.stats
        /\ pendingSetups' = w.pendingSetups
        /\ dropListeners' = w.dropListeners
        /\ editingTaskId' = w.editingTaskId
        /\ formLabels' = w.formLabels
        /\ deleteModal' = w.deleteModal
        /\ last' = [op |-> op, id |-> id, id2 |-> id2, arg |-> arg, text |-> text,
                    ret |-> r.ret, threw |-> r.threw, fresh |-> fresh,
                    trace |-> w.trace]
        /\ before' = W
        /\ steps' = steps + 1

\* one call of an event handler; the timers its renders set run before the
\* next event
Apply(res, op, id, id2, arg, text, fresh) ==
    ApplyWithin(MaxSteps, FALSE, res, op, id, id2, arg, text, fresh)

\* new Task(title, description, status, priority) followed by add(task), as the
\* form does in add mode; Date.now() may have advanced, Math.random() draws r
AddTask ==
    \E a \in newTaskInputs :
        IF validateInputs(a.title, a.status)
        THEN /\ Apply([w |-> W, ret |-> "threw", threw |-> TRUE],
                      "new", <<>>, <<>>, a, <<>>, TRUE)
             /\ UNCHANGED <<now, issued>>
        ELSE \E t \in now..(StartNow + MaxTicks), r \in 1..MaxRnd :
                LET c == Task_new(a.title, a.description, a.status, a.priority, t, r)
                    id == c.task[1].id
                IN  /\ Apply(add(W, c.task[1]), "new", id, <<>>, a, <<>>,
                             id \notin issued \cup idsOf(tasks))
                    /\ now' = t
                    /\ issued' = issued \cup {id}

Update ==
    \E id \in idInputs, p \in partialInputs :
        /\ Apply(update(W, id, p), "update", id, <<>>, p, <<>>, TRUE)
        /\ UNCHANGED <<now, issued>>

Remove ==
    \E id \in idInputs :
        /\ Apply(remove(W, id), "remove", id, <<>>, noData, <<>>, TRUE)
        /\ UNCHANGED <<now, issued>>

\* a drop on a displayed card that carries its listeners (no drop event is
\* fired on a card without a dragover listener); the dragged text is a card's
\* id, a stranger's or empty
Drop ==
    \E draggedId \in idInputs \cup {<<>>}, k \in DOMAIN cards :
        /\ listShown
        /\ dropListeners > 0
        /\ Apply(dispatchDrop(W, draggedId, cards[k], dropListeners), "drop",
                 draggedId, cards[k], noData, <<>>, TRUE)
        /\ UNCHANGED <<now, issued>>

FilterByStatus ==
    \E status \in filterInputs :
        /\ Apply(filterByStatus(W, status), "filterByStatus", <<>>, <<>>,
                 [noData EXCEPT !.status = status], <<>>, TRUE)
        /\ UNCHANGED <<now, issued>>

Search ==
    \E text \in searchInputs :
        /\ Apply(search(W, text), "search", <<>>, <<>>, noData, text, TRUE)
        /\ UNCHANGED <<now, issued>>

SortBy ==
    \E field \in {"date", "title", "priority"}, order \in {"asc", "desc"} :
        /\ Apply(sortBy(W, field, order), "sortBy", <<>>, <<>>,
                 [noData EXCEPT !.status = field \o "-" \o order], <<>>, TRUE)
        /\ UNCHANGED <<now, issued>>

ClearAll ==
    /\ Apply(clearAll(W), "clearAll", <<>>, <<>>, noData, <<>>, TRUE)
    /\ UNCHANGED <<now, issued>>

QuickEditStatus ==
    \E id \in idInputs :
        /\ Apply(quickEditStatus(W, id), "quickEditStatus", id, <<>>, noData, <<>>, TRUE)
        /\ UNCHANGED <<now, issued>>

QuickEditPriority ==
    \E id \in idInputs :
        /\ Apply(quickEditPriority(W, id), "quickEditPriority", id, <<>>, noData,
                 <<>>, TRUE)
        /\ UNCHANGED <<now, issued>>

SortSelect ==
    \E value \in sortSelectInputs :
        /\ Apply(sortSelectChange(W, value), "sortSelect", <<>>, <<>>,
                 [noData EXCEPT !.status = value], <<>>, TRUE)
        /\ UNCHANGED <<now, issued>>

Next ==
    \/ AddTask
    \/ Update
    \/ Remove
    \/ Drop
    \/ FilterByStatus
    \/ Search
    \/ SortBy
    \/ ClearAll
    \/ QuickEditStatus
    \/ QuickEditPriority

Spec == Init /\ [][Next]_vars

----------------------------------------------------------------------------
(* The manager and the sort selector over a store written by save() *)

InitOps == InitOver({[kind |-> "array", items |-> savedItems]})

NextOps ==
    \/ AddTask
    \/ Update
    \/ Remove
    \/ Drop
    \/ FilterByStatus
    \/ Search
    \/ SortBy
    \/ SortSelect
    \/ ClearAll
    \/ QuickEditStatus
    \/ QuickEditPriority

SpecOps == InitOps /\ [][NextOps]_vars

----------------------------------------------------------------------------
(* The view: filter, search and sort over tasks read from the store, a record *)
(* with a priority outside the closed set among them                          *)

unknownPriorityItems == [savedItems EXCEPT ![2].priority = "urgente"]

viewBlobs ==
    { [kind |-> "array", items |-> savedItems],
      [kind |-> "array", items |-> unknownPriorityItems] }

InitView == InitOver(viewBlobs)

NextView ==
    \/ FilterByStatus
    \/ Search
    \/ SortBy
    \/ SortSelect

SpecView == InitView /\ [][NextView]_vars

----------------------------------------------------------------------------
(* Drag and drop: every render defers setupDragAndDrop by a 10 ms timer, and  *)
(* events may be handled before a pending timer runs                          *)

InitDnD == Boot([kind |-> "array", items |-> savedItems], <<>>, TRUE)

\* one pending timer runs setupDragAndDrop
TimerFires ==
    /\ pendingSetups > 0
    /\ ApplyWithin(MaxDndSteps, TRUE,
                   [w |-> setupDragAndDrop([W EXCEPT !.pendingSetups = @ - 1]),
                    ret |-> "void", threw |-> FALSE],
                   "timer", <<>>, <<>>, noData, <<>>, TRUE)
    /\ UNCHANGED <<now, issued>>

\* 'input' event of #search-input
TypeSearch ==
    \E text \in searchInputs :
        /\ ApplyWithin(MaxDndSteps, TRUE, search(W, text), "search", <<>>, <<>>,
                       noData, text, TRUE)
        /\ UNCHANGED <<now, issued>>

\* one card is dropped on a card that carries its listeners
DropCard ==
    \E d \in DOMAIN cards, k \in DOMAIN cards :
        /\ listShown
        /\ dropListeners > 0
        /\ ApplyWithin(MaxDndSteps, TRUE,
                       dispatchDrop(W, cards[d], cards[k], dropListeners),
                       "drop", cards[d], cards[k], noData, <<>>, TRUE)
        /\ UNCHANGED <<now, issued>>

NextDnD ==
    \/ TimerFires
    \/ TypeSearch
    \/ DropCard

SpecDnD == InitDnD /\ [][NextDnD]_vars

----------------------------------------------------------------------------
(* The form and the delete modal *)

InitForm == InitOver({[kind |-> "array", items |-> savedItems]})

EditTask ==
    \E id \in idInputs :
        /\ ApplyWithin(MaxFormSteps, FALSE, editTask(W, id), "editTask", id, <<>>, noData, <<>>, TRUE)
        /\ UNCHANGED <<now, issued>>

CancelEdit ==
    /\ ApplyWithin(MaxFormSteps, FALSE, cancelEdit(W), "cancelEdit", <<>>, <<>>, noData, <<>>, TRUE)
    /\ UNCHANGED <<now, issued>>

\* the form is submitted with values a; in add mode with valid values a task is
\* built: Date.now() may have advanced, Math.random() draws r
Submit ==
    \E a \in newTaskInputs :
        IF editingTaskId # <<>> \/ validateInputs(a.title, a.status)
        THEN /\ ApplyWithin(MaxFormSteps, FALSE, submitForm(W, a, now, 1), "submit", editingTaskId, <<>>, a,
                      <<>>, TRUE)
             /\ UNCHANGED <<now, issued>>
        ELSE \E t \in now..(StartNow + MaxTicks), r \in 1..MaxRnd :
                /\ ApplyWithin(MaxFormSteps, FALSE, submitForm(W, a, t, r), "submit", generateId(t, r), <<>>, a,
                         <<>>, generateId(t, r) \notin issued \cup idsOf(tasks))
                /\ now' = t
                /\ issued' = issued \cup {generateId(t, r)}

\* the delete button of a displayed card
DeleteTask ==
    \E k \in DOMAIN cards :
        /\ listShown
        /\ ApplyWithin(MaxFormSteps, FALSE, deleteTask(W, cards[k]), "deleteTask",
                       cards[k], <<>>, noData, <<>>, TRUE)
        /\ UNCHANGED <<now, issued>>

\* a click on the confirm button of the displayed modal
ConfirmDelete ==
    /\ deleteModal.shown
    /\ ApplyWithin(MaxFormSteps, FALSE, confirmDelete(W), "confirmDelete",
                   deleteModal.id, <<>>, noData, <<>>, TRUE)
    /\ UNCHANGED <<now, issued>>

\* a click on the cancel button of the displayed modal
CancelDelete ==
    /\ deleteModal.shown
    /\ ApplyWithin(MaxFormSteps, FALSE, cancelDelete(W), "cancelDelete",
                   deleteModal.id, <<>>, noData, <<>>, TRUE)
    /\ UNCHANGED <<now, issued>>

NextForm ==
    \/ EditTask
    \/ CancelEdit
    \/ Submit
    \/ DeleteTask
    \/ ConfirmDelete
    \/ CancelDelete

SpecForm == InitForm /\ [][NextForm]_vars

----------------------------------------------------------------------------
(* The stored item: what load() and the constructor make of it *)

\* getItem returns null, '', a text JSON.parse rejects, the text of a JSON
\* value that is no array
absentItem == [kind |-> "absent", items |-> <<>>]

emptyItem == [kind |-> "empty", items |-> <<>>]

unparsableItem == [kind |-> "unparsable", items |-> <<>>]

objectItem == [kind |-> "object", items |-> <<>>]

\* arrays with a record whose status or title is not what the form writes
unknownStatusItems == [savedItems EXCEPT ![2].status = "archivée"]

blankTitleItems == [savedItems EXCEPT ![3].title = <<" ">>]

bootBlobs ==
    { absentItem, emptyItem, unparsableItem, objectItem,
      [kind |-> "array", items |-> <<>>],
      [kind |-> "array", items |-> savedItems],
      [kind |-> "array", items |-> unknownStatusItems],
      [kind |-> "array", items |-> blankTitleItems],
      [kind |-> "array", items |-> unknownPriorityItems] }

InitBoot == InitOver(bootBlobs)

\* taskManager.load() called on the running manager
Load ==
    /\ Apply([w |-> load(W), ret |-> "void", threw |-> FALSE], "load", <<>>, <<>>,
             noData, <<>>, TRUE)
    /\ UNCHANGED <<now, issued>>

\* the item 'tasks' is set or removed from outside the page (another tab, the
\* browser's storage tools)
StorageWrite ==
    \E blob \in bootBlobs :
        /\ Apply([w |-> [W EXCEPT !.storage = blob], ret |-> "void", threw |-> FALSE],
                 "storage", <<>>, <<>>, noData, <<>>, TRUE)
        /\ UNCHANGED <<now, issued>>

\* the page is loaded again: script start and DOMContentLoaded over the item
Reload ==
    \E seeds \in (IF seedsNeeded(storage) THEN sampleSeeds(now) ELSE {<<>>}) :
        /\ Apply([w |-> updateUI(TaskManager_new(storage, emptyPage, seeds)),
                  ret |-> "void", threw |-> FALSE],
                 "reload", <<>>, <<>>, noData, <<>>, TRUE)
        /\ now' = IF seeds = <<>> THEN now ELSE seeds[Len(seeds)][1]
        /\ issued' = issued \cup
                        {generateId(seeds[i][1], seeds[i][2]) : i \in DOMAIN seeds}

NextBoot ==
    \/ Load
    \/ StorageWrite
    \/ Reload

SpecBoot == InitBoot /\ [][NextBoot]_vars

----------------------------------------------------------------------------
(* The manager's mutations followed by a new load of the page *)

InitReload == InitOver({[kind |-> "array", items |-> savedItems]})

NextReload ==
    \/ AddTask
    \/ Update
    \/ Remove
    \/ Drop
    \/ ClearAll
    \/ Reload

SpecReload == InitReload /\ [][NextReload]_vars

----------------------------------------------------------------------------
(* Properties.  last and before describe the call that led to the state.     *)

\* the task the last call named, as it was when the call began
targetBefore == findById(before.tasks, last.id)

isBlank(text) == \A i \in DOMAIN text : IsWhiteSpace(text[i])

\* x is raw without its leading and trailing white space
isTrimOf(x, raw) ==
    /\ x = <<>> \/ (~IsWhiteSpace(x[1]) /\ ~IsWhiteSpace(x[Len(x)]))
    /\ \E i \in 0..Len(raw) :
          /\ i + Len(x) <= Len(raw)
          /\ SubSeq(raw, i + 1, i + Len(x)) = x
          /\ isBlank(SubSeq(raw, 1, i))
          /\ isBlank(SubSeq(raw, i + Len(x) + 1, Len(raw)))

\* the last call was update(id, partialData) with a status outside the closed set
invalidStatusUpdate ==
    last.op = "update" /\ "status" \in last.arg.has
        /\ last.arg.status \notin {"à faire", "en cours", "terminée", "bloquée"}

\* the last call was update(id, partialData) with an empty or blank title
blankTitleUpdate ==
    last.op = "update" /\ "title" \in last.arg.has /\ isBlank(last.arg.title)

\* C1: every task of the manager has the colour mapped to its status.
C1_ColorOfStatus ==
    \A i \in DOMAIN tasks :
        tasks[i].color =
            (CASE tasks[i].status = "à faire" -> "#3498db"
               [] tasks[i].status = "en cours" -> "#f39c12"
               [] tasks[i].status = "terminée" -> "#27ae60"
               [] tasks[i].status = "bloquée" -> "#e74c3c"
               [] OTHER -> "none")

\* C2: an update carrying a status outside the closed set returns false and
\* changes no field of any task, whatever other fields it carries.
C2_InvalidStatusChangesNothing ==
    invalidStatusUpdate => last.ret = "false" /\ tasks = before.tasks

\* C3: an update carrying a status outside the closed set leaves the status
\* and the color of every task as they were.
C3_InvalidStatusKeepsStatusColor ==
    invalidStatusUpdate =>
        /\ Len(tasks) = Len(before.tasks)
        /\ \A i \in DOMAIN tasks :
              /\ tasks[i].status = before.tasks[i].status
              /\ tasks[i].color = before.tasks[i].color

\* C3 witness: the update reached the status check of a held task (it had
\* already assigned the title) and threw there
C3_Witness ==
    /\ invalidStatusUpdate
    /\ last.threw
    /\ targetBefore # <<>>
    /\ tasks # before.tasks

\* C4: an update carrying an empty or blank title fails and applies none of
\* the fields supplied with it.
C4_BlankTitleAppliesNothing ==
    blankTitleUpdate => last.ret = "false" /\ tasks = before.tasks

\* C4 witness: a blank title sent with a description, a status and a priority
\* to a held task
C4_Witness ==
    /\ blankTitleUpdate
    /\ last.threw
    /\ targetBefore # <<>>
    /\ last.arg.has = {"title", "description", "status", "priority"}
    /\ last.arg.status # targetBefore[1].status

\* C5: new Task fails exactly on a blank title or a status outside the closed
\* set and then produces no task; otherwise it stores the trimmed title and
\* description and its id differs from every id generated before.
C5_ConstructorContract ==
    last.op = "new" =>
        IF isBlank(last.arg.title)
              \/ last.arg.status \notin {"à faire", "en cours", "terminée", "bloquée"}
        THEN last.threw /\ tasks = before.tasks
        ELSE /\ ~last.threw
             /\ Len(tasks) = Len(before.tasks) + 1
             /\ isTrimOf(tasks[Len(tasks)].title, last.arg.title)
             /\ isTrimOf(tasks[Len(tasks)].description, last.arg.description)
             /\ tasks[Len(tasks)].id = last.id
             /\ last.fresh

\* C6: TaskManager.update never throws; it returns false for an unknown id
\* and for a validation error of Task.update, true otherwise; it saves and
\* refreshes the page (in that order, once) exactly when it returns true.
C6_UpdateReturnsBoolean ==
    last.op = "update" =>
        /\ last.ret \in {"true", "false"}
        /\ last.ret = "false" <=>
              \/ targetBefore = <<>>
              \/ blankTitleUpdate
              \/ invalidStatusUpdate
        /\ last.ret = "true" =>
              /\ Len(last.trace) = 2
              /\ last.trace[1].ev = "save"
              /\ last.trace[2].ev = "updateUI"
        /\ last.ret = "false" => last.trace = <<>>

\* C6 witness: a validation error of Task.update on a held task came back as
\* false
C6_Witness ==
    /\ last.op = "update"
    /\ targetBefore # <<>>
    /\ last.threw
    /\ last.ret = "false"

\* the tasks of ts without the one at index i
without(ts, i) == [k \in 1..(Len(ts) - 1) |-> IF k < i THEN ts[k] ELSE ts[k + 1]]

\* C7: after remove(id), findById(id) finds nothing; for an id not held,
\* remove returns false and leaves the tasks and the stored item alone; a
\* successful remove deletes one task and keeps the order of the others.
C7_RemoveThenNotFound ==
    last.op = "remove" =>
        /\ findById(tasks, last.id) = <<>>
        /\ targetBefore = <<>> =>
              last.ret = "false" /\ tasks = before.tasks /\ storage = before.storage
        /\ targetBefore # <<>> =>
              /\ last.ret = "true"
              /\ \E i \in DOMAIN before.tasks :
                    before.tasks[i].id = last.id /\ tasks = without(before.tasks, i)

\* the last call was a drop of card id on card id2, both ids held by a task
dropOfHeld ==
    /\ last.op = "drop"
    /\ findById(before.tasks, last.id) # <<>>
    /\ findById(before.tasks, last.id2) # <<>>

\* C8: for two ids held by tasks, the reorder exchanges the two tasks and
\* moves no other, a second reorder of the same ids restores the order, and
\* the sort key is "manual" after each.
C8_ReorderInvolution ==
    dropOfHeld /\ last.id # last.id2 =>
        /\ currentSort = "manual"
        /\ \E i, j \in DOMAIN before.tasks :
              /\ before.tasks[i].id = last.id
              /\ before.tasks[j].id = last.id2
              /\ tasks = [before.tasks EXCEPT ![i] = before.tasks[j],
                                              ![j] = before.tasks[i]]
        /\ reorderTasks(W, last.id, last.id2).tasks = before.tasks
        /\ reorderTasks(W, last.id, last.id2).currentSort = "manual"

\* C9: a drop whose dragged id or target id is held by no task, or whose two
\* ids are equal, changes neither the tasks, nor the sort key, nor the stored
\* item, and refreshes nothing.
C9_DropNoOp ==
    last.op = "drop" /\ (~dropOfHeld \/ last.id = last.id2) =>
        /\ tasks = before.tasks
        /\ currentSort = before.currentSort
        /\ storage = before.storage
        /\ last.trace = <<>>

\* C9 witness: a card dropped on itself while another sort key than "manual"
\* is active
C9_Witness ==
    /\ dropOfHeld
    /\ last.id = last.id2
    /\ currentSort # "manual"

\* C10: after add, update, remove, reorder or clearAll the stored item is the
\* serialization of the tasks, and it already was whenever the page was
\* refreshed (the save comes before the refresh).
C10_StoredAfterMutation ==
    last.op \in {"new", "update", "remove", "drop", "clearAll"} =>
        /\ synced(W)
        /\ \A k \in DOMAIN last.trace :
              last.trace[k].ev = "updateUI" =>
                  /\ last.trace[k].synced
                  /\ k > 1
                  /\ last.trace[k - 1].ev = "save"

\* a stored record the Task constructor rejects: blank title or a status
\* outside the closed set
failsValidation(rec) ==
    isBlank(rec.title) \/ rec.status \notin {"à faire", "en cours", "terminée", "bloquée"}

\* the item is an array with a record that fails validation
hasRejectedRecord(blob) ==
    blob.kind = "array" /\ \E i \in DOMAIN blob.items : failsValidation(blob.items[i])

\* the item is missing (null or '')
isMissing(blob) == blob.kind \in {"absent", "empty"}

\* the item is there and is not the text of an array of valid records
isMalformed(blob) ==
    blob.kind \in {"unparsable", "object"} \/ hasRejectedRecord(blob)

\* C11 (as stated): load() never throws, and when the stored item is missing or
\* malformed the collection is empty when load() returns, whatever it held
\* before the call.
C11_LoadEmptiesOnBadData ==
    last.op = "load" =>
        /\ ~last.threw
        /\ (isMissing(before.storage) \/ isMalformed(before.storage)) => tasks = <<>>

\* C11 (amended): load() never throws; over an unparsable item, an item that is
\* no array or an array with a record that fails validation it leaves the
\* collection empty whatever it held; over a missing item (null or '') it
\* leaves the collection as it was, which is empty when the constructor calls it.
C11_LoadEmptiesOnMalformedKeepsOnMissing ==
    last.op = "load" =>
        /\ ~last.threw
        /\ isMalformed(before.storage) => tasks = <<>>
        /\ isMissing(before.storage) => tasks = before.tasks

C11_Witness ==
    /\ last.op = "load"
    /\ before.tasks # <<>>
    /\ before.storage \in {unparsableItem, [kind |-> "array", items |-> blankTitleItems]}
    /\ tasks = <<>>

\* the last step built a manager: script start or a new load of the page
constructed == last.op \in {"init", "reload"}

\* ts is the six sample tasks, in their order
areTheSamples(ts) ==
    /\ Len(ts) = 6
    /\ \A i \in DOMAIN ts :
          /\ ts[i].title = sampleTasks[i].title
          /\ ts[i].description = sampleTasks[i].description
          /\ ts[i].status = sampleTasks[i].status
          /\ ts[i].priority = sampleTasks[i].priority

\* the item holds what save() writes for ts
holdsSerializationOf(blob, ts) ==
    /\ blob.kind = "array"
    /\ Len(blob.items) = Len(ts)
    /\ \A i \in DOMAIN ts :
          /\ blob.items[i].id = ts[i].id
          /\ blob.items[i].title = ts[i].title
          /\ blob.items[i].description = ts[i].description
          /\ blob.items[i].status = ts[i].status
          /\ blob.items[i].priority = ts[i].priority
          /\ blob.items[i].color = ts[i].color
          /\ blob.items[i].createdAt.kind = "iso"
          /\ blob.items[i].createdAt.sec * 1000 + blob.items[i].createdAt.milli
                = ts[i].createdAt.ms

\* every task of ts is a record of the item: none was added to them
allFrom(blob, ts) ==
    \A i \in DOMAIN ts : \E j \in DOMAIN blob.items : ts[i].id = blob.items[j].id

isEmptyOrUnreadable(blob) ==
    isMissing(blob) \/ isMalformed(blob) \/ (blob.kind = "array" /\ blob.items = <<>>)

\* C12 (as stated): a manager built over an empty or unreadable store holds
\* exactly the six sample tasks in their order and the store holds their
\* serialization; when the store holds at least one valid task, no sample task
\* is added.
C12_SamplesUnlessAValidTask ==
    constructed =>
        /\ isEmptyOrUnreadable(before.storage) =>
                areTheSamples(tasks) /\ holdsSerializationOf(storage, tasks)
        /\ (before.storage.kind = "array"
              /\ \E i \in DOMAIN before.storage.items :
                    ~failsValidation(before.storage.items[i])) =>
                allFrom(before.storage, tasks)

\* C12 (amended): a manager built over an empty or unreadable store (a record
\* that fails validation makes the whole store unreadable, valid records
\* beside it included) holds exactly the six sample tasks in their order and
\* the store holds their serialization; when the store is an array of at least
\* one record and every record is valid, the manager holds the stored tasks
\* and no sample task.
C12_SamplesUnlessAllValid ==
    constructed =>
        /\ isEmptyOrUnreadable(before.storage) =>
                areTheSamples(tasks) /\ holdsSerializationOf(storage, tasks)
        /\ ~isEmptyOrUnreadable(before.storage) =>
                /\ allFrom(before.storage, tasks)
                /\ Len(tasks) = Len(before.storage.items)
                /\ \A i \in DOMAIN tasks : tasks[i].id = before.storage.items[i].id
                /\ storage = before.storage

C12_Witness ==
    /\ constructed
    /\ before.storage = [kind |-> "array", items |-> unknownStatusItems]
    /\ areTheSamples(tasks)
    /\ holdsSerializationOf(storage, tasks)

\* Task.fromJSON(t.toJSON()) carries the seven fields of t
roundTrips(t) ==
    LET j == toJSON(t) IN
    /\ ~j.threw
    /\ LET r == fromJSON(j.data[1]) IN
        /\ ~r.threw
        /\ r.task[1].id = t.id
        /\ r.task[1].title = t.title
        /\ r.task[1].description = t.description
        /\ r.task[1].status = t.status
        /\ r.task[1].priority = t.priority
        /\ r.task[1].createdAt = t.createdAt
        /\ r.task[1].color = t.color

\* C13: every task built by the constructor and changed by updates has the same
\* id, title, description, status, priority, createdAt and color after
\* Task.fromJSON(t.toJSON()).  It is stated of every task the last call built,
\* read from the store or changed; a task the call left as it was had its turn
\* when it was built (at script start no task is left as it was).
C13_JsonRoundTrip ==
    \A i \in DOMAIN tasks :
        (\E k \in DOMAIN before.tasks : before.tasks[k] = tasks[i]) \/ roundTrips(tasks[i])

C13_Witness ==
    /\ last.op = "update"
    /\ last.ret = "true"
    /\ last.id \in issued
    /\ \E i \in DOMAIN tasks :
          /\ tasks[i].id = last.id
          /\ tasks[i].createdAt.ms % 1000 # 0
          /\ tasks[i] \notin {before.tasks[k] : k \in DOMAIN before.tasks}
          /\ roundTrips(tasks[i])

\* the records of the item are kept, each with its stored status and priority
keptAsStored(blob, ts) ==
    /\ Len(ts) = Len(blob.items)
    /\ \A i \in DOMAIN ts :
          /\ ts[i].id = blob.items[i].id
          /\ ts[i].status = blob.items[i].status
          /\ ts[i].priority = blob.items[i].priority

\* C14 (as stated): deserialization accepts a stored record whose status or
\* priority is outside its closed set: fromJSON returns a task with the stored
\* status and priority, and load() keeps such a record.
C14_StoredStatusAndPriorityTrusted ==
    (last.op = "load" /\ before.storage.kind = "array"
        /\ \A i \in DOMAIN before.storage.items : ~isBlank(before.storage.items[i].title))
    => /\ keptAsStored(before.storage, tasks)
       /\ \A i \in DOMAIN before.storage.items :
             ~fromJSON(before.storage.items[i]).threw

\* C14 (amended): deserialization accepts a stored record whose priority is
\* outside its closed set and keeps that priority; a stored record whose status
\* is outside its closed set fails validation like a blank title: fromJSON
\* throws and load() leaves the collection empty.
C14_PriorityTrustedStatusValidated ==
    (last.op = "load" /\ before.storage.kind = "array") =>
        /\ \A i \in DOMAIN before.storage.items :
              LET rec == before.storage.items[i] IN
              /\ fromJSON(rec).threw <=> failsValidation(rec)
              /\ ~failsValidation(rec) =>
                    /\ fromJSON(rec).task[1].status = rec.status
                    /\ fromJSON(rec).task[1].priority = rec.priority
        /\ hasRejectedRecord(before.storage) => tasks = <<>>
        /\ ~hasRejectedRecord(before.storage) => keptAsStored(before.storage, tasks)

C14_Witness ==
    /\ last.op = "load"
    /\ before.storage = [kind |-> "array", items |-> unknownPriorityItems]
    /\ Len(tasks) = 3
    /\ tasks[2].priority = "urgente"

\* the last call was one of the view operations
viewCall == last.op \in {"filterByStatus", "search", "sortBy"}

taskFields == {"id", "title", "description", "status", "priority", "createdAt", "color"}

\* C15: filterByStatus, search and sortBy* (each returning getFilteredTasks())
\* leave the stored task sequence and the persisted item as they were and
\* change only their own view-state variable; the persisted item holds task
\* records only, never view state.
C15_ViewCallsTouchViewStateOnly ==
    /\ viewCall =>
          /\ tasks = before.tasks
          /\ storage = before.storage
          /\ \A k \in DOMAIN last.trace : last.trace[k].ev # "save"
          /\ last.op # "filterByStatus" => currentFilter = before.currentFilter
          /\ last.op # "search" => currentSearch = before.currentSearch
          /\ last.op # "sortBy" => currentSort = before.currentSort
    /\ (storage.kind = "array" /\ (last.op = "init" \/ storage # before.storage)) =>
          \A i \in DOMAIN storage.items : DOMAIN storage.items[i] = taskFields

C15_Witness ==
    /\ last.op = "sortBy"
    /\ currentSort = "title-asc"
    /\ before.currentSort # "title-asc"
    /\ listShown
    /\ cards # [i \in DOMAIN tasks |-> tasks[i].id]
    /\ tasks = before.tasks
    /\ storage = before.storage

\* text contains the lowercased query, case ignored
containsIgnoringCase(text, query) ==
    \E i \in 0..Len(text) :
        /\ i + Len(query) <= Len(text)
        /\ \A k \in DOMAIN query : lowerOf(text[i + k]) = query[k]

\* t passes the status filter and the search of the view state
matchesView(t, filter, query) ==
    /\ filter = "all" \/ t.status = filter
    /\ query = <<>> \/ containsIgnoringCase(t.title, query)
                     \/ containsIgnoringCase(t.description, query)

occurrences(seq, x) == Cardinality({i \in DOMAIN seq : seq[i] = x})

\* the ordinal of a priority of the closed set
ordinalOf ==
    [pr \in {"haute", "moyenne", "basse"} |->
        IF pr = "haute" THEN 3 ELSE IF pr = "moyenne" THEN 2 ELSE 1]

\* a may stand before b under the sort key
mayPrecede(sortKey, a, b) ==
    CASE sortKey = "date-asc" -> a.createdAt.ms <= b.createdAt.ms
      [] sortKey = "date-desc" -> a.createdAt.ms >= b.createdAt.ms
      [] sortKey = "title-asc" -> localeCompare(a.title, b.title) <= 0
      [] sortKey = "title-desc" -> localeCompare(a.title, b.title) >= 0
      [] sortKey = "priority-asc" ->
            (a.priority \in DOMAIN ordinalOf /\ b.priority \in DOMAIN ordinalOf)
                => ordinalOf[a.priority] <= ordinalOf[b.priority]
      [] sortKey = "priority-desc" ->
            (a.priority \in DOMAIN ordinalOf /\ b.priority \in DOMAIN ordinalOf)
                => ordinalOf[a.priority] >= ordinalOf[b.priority]
      [] OTHER -> TRUE

\* result is what the view (filter, query, sortKey) shows of ts: the matching
\* tasks, each once, in the order of the sort key
isViewOf(result, ts, filter, query, sortKey) ==
    LET matching == SelectSeq(ts, LAMBDA t : matchesView(t, filter, query)) IN
    /\ Len(result) = Len(matching)
    /\ \A i \in DOMAIN matching :
          occurrences(result, matching[i]) = occurrences(matching, matching[i])
    /\ sortKey = "manual" => result = matching
    /\ \A i \in DOMAIN result : \A j \in DOMAIN result :
          i < j => mayPrecede(sortKey, result[i], result[j])

\* C16: for the filter, search text and sort key in force, getFilteredTasks
\* returns exactly the stored tasks that match the filter and the search, each
\* once, ordered by the comparator of the sort key (priority: haute 3,
\* moyenne 2, basse 1); with filter terminée, no search and date-desc it
\* returns the done tasks only, newest first.
C16_FilteredViewIsOrdered ==
    /\ currentSort # "manual" =>
          isViewOf(getFilteredTasks(W), tasks, currentFilter, currentSearch, currentSort)
    /\ LET done == getFilteredTasks([W EXCEPT !.currentFilter = "terminée",
                                             !.currentSearch = <<>>,
                                             !.currentSort = "date-desc"])
       IN  /\ \A i \in DOMAIN done : done[i].status = "terminée"
           /\ Len(done) = Cardinality({i \in DOMAIN tasks : tasks[i].status = "terminée"})
           /\ \A i \in DOMAIN done : \A j \in DOMAIN done :
                 i < j => done[i].createdAt.ms >= done[j].createdAt.ms

\* the last call chose a sort key: sortBy* or the sort selector
sortChosen == last.op \in {"sortBy", "sortSelect"}

\* C17: a reorder that found both tasks leaves the sort key "manual"; from then
\* on every call but an explicit choice of a sort key (sortBy*, the sort
\* selector) keeps it "manual", and while it is "manual" getFilteredTasks
\* returns the matching tasks in stored order.
C17_ManualSortPersists ==
    /\ (dropOfHeld /\ last.id # last.id2) => currentSort = "manual"
    /\ (last.op # "init" /\ before.currentSort = "manual" /\ ~sortChosen)
          => currentSort = "manual"
    /\ currentSort = "manual" =>
          getFilteredTasks(W) =
              SelectSeq(tasks, LAMBDA t : matchesView(t, currentFilter, currentSearch))

C17_Witness ==
    /\ before.currentSort = "manual"
    /\ currentSort = "manual"
    /\ last.op \in {"new", "update", "remove", "filterByStatus", "search"}
    /\ tasks # <<>>
    /\ sortTasks(tasks, "date-desc") # tasks
    /\ listShown
    /\ cards = [i \in DOMAIN getFilteredTasks(W) |-> getFilteredTasks(W)[i].id]

\* the number of tasks of ts with the status
countOf(ts, status) == Cardinality({i \in DOMAIN ts : ts[i].status = status})

\* C18: getStats returns the number of stored tasks and, for each of the four
\* statuses, the number of stored tasks with that status, whatever the filter,
\* the search text and the sort key are; the four counts add up to the total.
C18_StatsCountStoredTasks ==
    LET st == getStats(tasks) IN
    /\ DOMAIN st = {"all", "à faire", "en cours", "terminée", "bloquée"}
    /\ st["all"] = Len(tasks)
    /\ \A k \in {"à faire", "en cours", "terminée", "bloquée"} : st[k] = countOf(tasks, k)
    /\ st["à faire"] + st["en cours"] + st["terminée"] + st["bloquée"] = st["all"]

C18_Witness ==
    /\ currentFilter = "terminée"
    /\ currentSort # "date-desc"
    /\ listShown
    /\ Len(cards) < Len(tasks)
    /\ getStats(tasks)["all"] = Len(tasks)
    /\ getStats(tasks)["terminée"] = Len(cards)
    /\ stats = getStats(tasks)

\* ts with the first task of id a and the first task of id b exchanged
exchanged(ts, a, b) ==
    [i \in DOMAIN ts |->
        IF i = findIndex(ts, a) THEN ts[findIndex(ts, b)]
        ELSE IF i = findIndex(ts, b) THEN ts[findIndex(ts, a)]
        ELSE ts[i]]

\* C19: one drop of a card on a different card exchanges the two tasks exactly
\* once, however many renders came before it and however their deferred
\* listener installations interleaved with each other and with the events.
C19_OneDropSwapsOnce ==
    (dropOfHeld /\ last.id # last.id2) =>
        /\ tasks = exchanged(before.tasks, last.id, last.id2)
        /\ tasks # before.tasks

\* the values of the last submission pass the constructor's validation
validSubmission ==
    /\ last.op = "submit"
    /\ ~isBlank(last.arg.title)
    /\ last.arg.status \in {"à faire", "en cours", "terminée", "bloquée"}

\* C20: after a submission that updated the edited task the form is back in add
\* mode: editingTaskId is null whenever the form shows its add labels, so a
\* valid submission made under the add labels appends one task and changes no
\* task held before.
C20_AddLabelsMeanAddMode ==
    /\ formLabels = "add" => editingTaskId = <<>>
    /\ (validSubmission /\ before.formLabels = "add") =>
          /\ Len(tasks) = Len(before.tasks) + 1
          /\ SubSeq(tasks, 1, Len(before.tasks)) = before.tasks

\* C21: after any sequence of add, update, remove, reorder and clearAll, a
\* manager newly constructed over the same storage holds the same sequence of
\* tasks (ids, fields, order) as the manager before it held, the empty
\* sequence included.
C21_ReloadRoundTrip == last.op = "reload" => tasks = before.tasks

\* C22: in every state of the page editingTaskId is null or the id of a held
\* task, whatever the interleaving of editTask, deleteTask with its
\* confirmation, submissions and cancelEdit; so a valid submission in edit mode
\* succeeds and resets the form.
C22_EditedTaskIsHeld ==
    /\ editingTaskId = <<>> \/ findById(tasks, editingTaskId) # <<>>
    /\ (validSubmission /\ before.editingTaskId # <<>>) =>
          /\ last.ret = "true"
          /\ formLabels = "add"

====
